---- MODULE Spec2Model ----
(***************************************************************************)
(* EMStudio automation scripts (IHP-GmbH/EMStudio, scripts/):              *)
(*   klEmsDriver.py   - KLayout menu handler that locates the EMStudio     *)
(*                      executable and launches it as a subprocess;        *)
(*   openems_model.py - openEMS driver script (ports, stackup, GDS, FDTD   *)
(*                      runs, S-matrix post-processing, Touchstone file);  *)
(*   palace_model.py  - Palace/GMSH driver script.                         *)
(*                                                                         *)
(* The three programs are independent, so there are two specifications:    *)
(* SpecDriver (the KLayout plugin) and SpecScripts (the two driver         *)
(* scripts, run side by side).                                             *)
(*                                                                         *)
(* Paths and strings that the code inspects are sequences of tokens.  A    *)
(* path is <<component, ..., component>>; the token Root in first place is *)
(* the file-system anchor ("/" on POSIX, the drive root on Windows), so a  *)
(* path is absolute exactly when it starts with Root.  The raw value of an *)
(* environment variable may in addition hold the tokens " " and "\""       *)
(* around (or inside) the path components.                                 *)
(***************************************************************************)
EXTENDS Integers, Sequences, FiniteSets, TLC

VARIABLES
    (* ---- klEmsDriver.py: the process environment and the file system *)
    is_windows,     \* os.name == "nt"
    environ,        \* os.environ: a function from the variables that are set
    exists,         \* the paths p with os.path.exists(p)
    executable,     \* the paths p with os.access(p, os.X_OK), a subset of exists
    (* ---- klEmsDriver.py: what the most recent run of handler_func did *)
    triggered,      \* handler_func has run at least once
    view,           \* what mw.current_view() gave that run
    find_called,    \* that run reached line 115
    emstudio_path,  \* the value find_emstudio_executable() returned to it
    popen_calls,    \* the subprocess.Popen calls it made: <<[args, env], ...>>
    procs,          \* the subprocesses it started: <<args, ...>>
    msgboxes,       \* the pya.MessageBox.critical boxes it showed
    raised,         \* it ended with an uncaught exception
    (* ---- openems_model.py *)
    o_pc,           \* position in the script
    o_trace,        \* the library entry points called so far, in order
    o_ports,        \* simulation_ports: [ports, portcount, portlayers]
    o_layernumbers, \* layernumbers
    o_allpolygons,  \* the arguments read_gds was called with (None before)
    o_runs,         \* settings['excite_portnumbers'] of each finished run
    o_i, o_j,       \* loop variables of the post-processing loops
    s_params,       \* the S-parameter matrix, indexed <<row, column>> from 0
    o_calc,         \* the calculate_Sij calls made: <<[i, j, result], ...>>
    o_snp,          \* the write_snp calls made: <<[name, data], ...>>
    (* ---- palace_model.py *)
    p_pc,
    p_trace,
    p_ports,
    p_layernumbers,
    p_allpolygons,
    p_created,      \* the create_palace calls made: <<excite_ports, ...>>
    p_run_scripts,  \* the create_run_script calls made: <<sim_path, ...>>
    p_solver_runs   \* the subprocess.run calls made

driver_vars == <<is_windows, environ, exists, executable, triggered, view,
                 find_called, emstudio_path, popen_calls, procs, msgboxes, raised>>
openems_vars == <<o_pc, o_trace, o_ports, o_layernumbers, o_allpolygons, o_runs,
                  o_i, o_j, s_params, o_calc, o_snp>>
palace_vars == <<p_pc, p_trace, p_ports, p_layernumbers, p_allpolygons,
                 p_created, p_run_scripts, p_solver_runs>>
vars == <<driver_vars, openems_vars, palace_vars>>

(***************************************************************************)
(* Bounds of the model.                                                    *)
(***************************************************************************)
\* At most this many of the candidate paths exist in the file system.
MaxFiles == 2
\* calculate_Sij returns one of this many different data sets.
NumSValues == 2

(***************************************************************************)
(* Strings and paths.                                                      *)
(***************************************************************************)
None == <<>>
Root == "/"
Space == " "
Quote == "\""

\* str.strip(chars): drop the leading and the trailing characters in chars.
RECURSIVE LStrip(_, _)
LStrip(s, chars) ==
    IF s # <<>> /\ Head(s) \in chars THEN LStrip(Tail(s), chars) ELSE s

RECURSIVE RStrip(_, _)
RStrip(s, chars) ==
    IF s # <<>> /\ s[Len(s)] \in chars
    THEN RStrip(SubSeq(s, 1, Len(s) - 1), chars)
    ELSE s

Strip(s, chars) == RStrip(LStrip(s, chars), chars)

\* os.path.join(dir, name, ...)
PathJoin(dir, names) == dir \o names

\* os.path.isabs
IsAbs(p) == p # <<>> /\ p[1] = Root

\* os.environ.get(key, default)
EnvGet(key, default) == IF key \in DOMAIN environ THEN environ[key] ELSE default

\* dict.pop(key, None) on a copy
EnvPop(env, key) == [k \in DOMAIN env \ {key} |-> env[k]]

\* os.path.exists(p)
PathExists(p) == p \in exists

\* os.access(p, os.X_OK)
IsExecutable(p) == p \in executable

\* os.path.expanduser("~/...") with the user's home directory
HomeDir == <<Root, "home", "user">>

\* shutil.which(name): the first directory of PATH that holds an executable
\* file of that name, joined with the name; None when there is none.  The
\* result is the directory as PATH gives it plus the name: it is not made
\* absolute.  (The extensions of PATHEXT that Windows adds to a name without
\* one are left out.)
RECURSIVE WhichIn(_, _)
WhichIn(dirs, name) ==
    IF dirs = <<>> THEN None
    ELSE LET p == PathJoin(Head(dirs), <<name>>)
         IN  IF PathExists(p) /\ IsExecutable(p) THEN p
             ELSE WhichIn(Tail(dirs), name)

Which(name) == WhichIn(EnvGet("PATH", <<>>), name)

(***************************************************************************)
(* klEmsDriver.py: find_emstudio_executable                                *)
(***************************************************************************)
\* line 29: the override, stripped of whitespace and then of double quotes
EnvExe == Strip(Strip(EnvGet("EMSTUDIO_EXE", <<>>), {Space}), {Quote})

\* line 34
Candidates ==
    IF is_windows THEN <<"EMStudio.exe", "EMStudio">>
                  ELSE <<"EMStudio", "EMStudio.exe">>

\* lines 35-38: the first candidate name that shutil.which finds
RECURSIVE FirstOnPath(_)
FirstOnPath(names) ==
    IF names = <<>> THEN None
    ELSE LET p == Which(Head(names))
         IN  IF p # None THEN p ELSE FirstOnPath(Tail(names))

\* lines 41-51
CommonLocations ==
    IF is_windows
    THEN << PathJoin(EnvGet("ProgramFiles", <<Root, "Program Files">>),
                     <<"EMStudio", "EMStudio.exe">>),
            PathJoin(EnvGet("ProgramFiles(x86)", <<Root, "Program Files (x86)">>),
                     <<"EMStudio", "EMStudio.exe">>) >>
    ELSE << <<Root, "usr", "local", "bin", "EMStudio">>,
            <<Root, "usr", "bin", "EMStudio">>,
            PathJoin(HomeDir, <<"bin", "EMStudio">>) >>

\* lines 53-57: the first common location that exists and is executable
RECURSIVE FirstCommon(_)
FirstCommon(common) ==
    IF common = <<>> THEN None
    ELSE IF PathExists(Head(common)) /\ IsExecutable(Head(common))
         THEN Head(common)
         ELSE FirstCommon(Tail(common))

\* A variant that tries the PATH before the override.
find_emstudio_executable_PathFirst ==
    LET p == FirstOnPath(Candidates)
    IN  IF p # None THEN p
        ELSE IF EnvExe # <<>> /\ PathExists(EnvExe) THEN EnvExe
        ELSE FirstCommon(CommonLocations)

find_emstudio_executable ==
    IF EnvExe # <<>> /\ PathExists(EnvExe) THEN EnvExe
    ELSE LET p == FirstOnPath(Candidates)
         IN  IF p # None THEN p
             ELSE FirstCommon(CommonLocations)

(***************************************************************************)
(* klEmsDriver.py: handler_func                                            *)
(***************************************************************************)
\* cell_view.cell when the cell view shows no cell
NoCell == "<no cell>"

\* What the host gives the handler: mw.current_view() (has_view), whether
\* view.active_cellview().layout() is there, cell_view.cell (its name, or
\* NoCell) and cell_view.filename().
NoView == [has_view |-> FALSE, layout |-> FALSE, cell |-> NoCell, filename |-> ""]
Views ==
    {NoView,
     [has_view |-> TRUE, layout |-> FALSE, cell |-> NoCell, filename |-> ""]}
    \cup [has_view : {TRUE}, layout : {TRUE},
          cell : {NoCell, "TOP"}, filename : {"", "chip.gds"}]

MsgNoLayout == "No layout is currently loaded in KLayout."
MsgNoFilename == "Current layout has no filename."
MsgNotFound ==
    IF is_windows THEN "Could not find EMStudio executable. (setx)"
                  ELSE "Could not find EMStudio executable. (export)"
MsgLaunchFailed == "Failed to launch EMStudio"

\* lines 135-137
ChildEnv == EnvPop(EnvPop(environ, "PYTHONHOME"), "PYTHONPATH")

\* lines 139-143
LaunchArgs(path, v) == <<path, "-gdsfile", v.filename, "-topcell", v.cell>>

\* The outcome of one run of the handler.
Outcome(v, found, path, calls, started, boxes, exc) ==
    /\ triggered' = TRUE
    /\ view' = v
    /\ find_called' = found
    /\ emstudio_path' = path
    /\ popen_calls' = calls
    /\ procs' = started
    /\ msgboxes' = boxes
    /\ raised' = exc
    /\ UNCHANGED <<is_windows, environ, exists, executable>>

\* A variant that does not check the file name before launching.
handler_func_NoFilenameCheck(v, popen_ok) ==
    IF ~v.has_view \/ ~v.layout
    THEN Outcome(v, FALSE, None, <<>>, <<>>, <<MsgNoLayout>>, FALSE)
    ELSE IF v.cell = NoCell
    THEN Outcome(v, FALSE, None, <<>>, <<>>, <<>>, TRUE)
    ELSE LET path == find_emstudio_executable
             args == LaunchArgs(path, v)
         IN  IF path = None
             THEN Outcome(v, TRUE, path, <<>>, <<>>, <<MsgNotFound>>, FALSE)
             ELSE /\ popen_ok => IsExecutable(path)
                  /\ IF popen_ok
                     THEN Outcome(v, TRUE, path, <<[args |-> args, env |-> ChildEnv]>>,
                                  <<args>>, <<>>, FALSE)
                     ELSE Outcome(v, TRUE, path, <<[args |-> args, env |-> ChildEnv]>>,
                                  <<>>, <<MsgLaunchFailed>>, FALSE)

\* One run of handler_func.  v is what the host shows; popen_ok says whether
\* subprocess.Popen starts the process or raises (it raises at least when
\* the path is not an executable file).
handler_func(v, popen_ok) ==
    IF ~v.has_view \/ ~v.layout                            \* line 99
    THEN Outcome(v, FALSE, None, <<>>, <<>>, <<MsgNoLayout>>, FALSE)
    ELSE IF v.cell = NoCell                                \* line 104: None.name
    THEN Outcome(v, FALSE, None, <<>>, <<>>, <<>>, TRUE)
    ELSE IF v.filename = ""                                \* line 107
    THEN Outcome(v, FALSE, None, <<>>, <<>>, <<MsgNoFilename>>, FALSE)
    ELSE LET path == find_emstudio_executable              \* line 115
             args == LaunchArgs(path, v)
         IN  IF path = None                                \* line 116
             THEN Outcome(v, TRUE, path, <<>>, <<>>, <<MsgNotFound>>, FALSE)
             ELSE /\ popen_ok => IsExecutable(path)
                  /\ IF popen_ok                           \* lines 145-148
                     THEN Outcome(v, TRUE, path, <<[args |-> args, env |-> ChildEnv]>>,
                                  <<args>>, <<>>, FALSE)
                     ELSE Outcome(v, TRUE, path, <<[args |-> args, env |-> ChildEnv]>>,
                                  <<>>, <<MsgLaunchFailed>>, FALSE)

(***************************************************************************)
(* The port container of the solver libraries (modules.simulation_setup,   *)
(* gds2palace.simulation_setup), which both scripts use.                   *)
(***************************************************************************)
\* simulation_setup.all_simulation_ports()
all_simulation_ports == [ports |-> <<>>, portcount |-> 0, portlayers |-> <<>>]

\* all_simulation_ports.add_port(port)
add_port(sp, port) ==
    [ports      |-> Append(sp.ports, port),
     portcount  |-> sp.portcount + 1,
     portlayers |-> Append(sp.portlayers, port.source_layernum)]

\* all_simulation_ports.all_active_excitations(): the numbers of the ports
\* whose voltage is not zero
all_active_excitations(sp) ==
    LET act == SelectSeq(sp.ports, LAMBDA q : q.voltage # 0)
    IN  [k \in 1..Len(act) |-> act[k].portnumber]

\* simulation_setup.simulation_port(portnumber=.., voltage=1, port_Z0=50,
\* source_layernum=.., from_layername='Metal1', to_layername='TopMetal2',
\* direction='z')
simulation_port(portnumber, source_layernum) ==
    [portnumber |-> portnumber, voltage |-> 1, port_Z0 |-> 50,
     source_layernum |-> source_layernum, from_layername |-> "Metal1",
     to_layername |-> "TopMetal2", direction |-> "z"]

\* What metals_list.getlayernumbers() can give after read_substrate: the
\* layer numbers of the stackup file.
StackupLayers == { <<8>>, <<8, 134>> }

(***************************************************************************)
(* openems_model.py                                                        *)
(***************************************************************************)
\* lines 84-98: the ports the script defines, in order
O_PortDefs == << simulation_port(1, 201), simulation_port(2, 202) >>

O_gds_filename == "%1"
O_XML_filename == "%2"
O_cellname == "%3"
O_model_basename == "openems_model"
O_sim_path == <<Root, "work", "sim:openems_model">>

\* lines 23-77: the settings the script sets before it defines the ports
O_InitialSettings ==
    [preview_only |-> FALSE, postprocess_only |-> FALSE, purpose |-> <<0>>,
     preprocess_gds |-> FALSE, merge_polygon_size |-> 0, unit |-> "1e-6",
     margin |-> 50, fstart |-> "0e9", fstop |-> "110e9", numfreq |-> 401,
     refined_cellsize |-> 2,
     Boundaries |-> <<"PEC", "PEC", "PEC", "PEC", "PEC", "PEC">>,
     cells_per_wavelength |-> 20, energy_limit |-> -40]

\* An entry of s_params that np.empty left unassigned
Empty == [unassigned |-> TRUE]

\* line 163
O_SnpName(num_ports) ==
    PathJoin(O_sim_path, << <<O_model_basename, ".s", ToString(num_ports), "p">> >>)

O_Settings ==
    /\ o_pc = "start"
    /\ o_pc' = "create_ports"
    /\ o_trace' = Append(o_trace, "settings")
    /\ UNCHANGED <<o_ports, o_layernumbers, o_allpolygons, o_runs, o_i, o_j,
                   s_params, o_calc, o_snp>>

\* line 80
O_CreatePorts ==
    /\ o_pc = "create_ports"
    /\ o_ports' = all_simulation_ports
    /\ o_pc' = IF Len(O_PortDefs) = 0 THEN "read_substrate" ELSE "add_port"
    /\ UNCHANGED <<o_trace, o_layernumbers, o_allpolygons, o_runs, o_i, o_j,
                   s_params, o_calc, o_snp>>

\* lines 84-90 and 92-98: one add_port call
O_AddPort ==
    /\ o_pc = "add_port"
    /\ LET k == Len(o_ports.ports) + 1
       IN  /\ o_ports' = add_port(o_ports, O_PortDefs[k])
           /\ o_pc' = IF k = Len(O_PortDefs) THEN "read_substrate" ELSE "add_port"
    /\ o_trace' = Append(o_trace, "add_port")
    /\ UNCHANGED <<o_layernumbers, o_allpolygons, o_runs, o_i, o_j,
                   s_params, o_calc, o_snp>>

\* lines 103-107: the stackup, and the layers to read
O_ReadSubstrate ==
    /\ o_pc = "read_substrate"
    /\ \E metals \in StackupLayers :
           o_layernumbers' = metals \o o_ports.portlayers
    /\ o_pc' = "read_gds"
    /\ o_trace' = Append(o_trace, "read_substrate")
    /\ UNCHANGED <<o_ports, o_allpolygons, o_runs, o_i, o_j, s_params, o_calc, o_snp>>

\* lines 110-116
O_ReadGds ==
    /\ o_pc = "read_gds"
    /\ o_allpolygons' = [gds_filename |-> O_gds_filename,
                         layernumbers |-> o_layernumbers,
                         purposelist  |-> O_InitialSettings.purpose,
                         cellname     |-> O_cellname]
    /\ o_pc' = "create_fdtd"
    /\ o_trace' = Append(o_trace, "read_gds")
    /\ UNCHANGED <<o_ports, o_layernumbers, o_runs, o_i, o_j, s_params, o_calc, o_snp>>

\* lines 121-134: the rest of the settings, and the solver object
O_CreateFDTD ==
    /\ o_pc = "create_fdtd"
    /\ o_pc' = IF Len(o_ports.ports) = 0 THEN "post_init" ELSE "excite"
    /\ o_trace' = Append(o_trace, "openEMS")
    /\ UNCHANGED <<o_ports, o_layernumbers, o_allpolygons, o_runs, o_i, o_j,
                   s_params, o_calc, o_snp>>

\* lines 140-147: one pass of the excitation loop
O_Excite ==
    /\ o_pc = "excite"
    /\ LET k == Len(o_runs) + 1
           excite_portnumbers == <<o_ports.ports[k].portnumber>>
       IN  /\ o_runs' = Append(o_runs, excite_portnumbers)
           /\ o_pc' = IF k = Len(o_ports.ports) THEN "post_init" ELSE "excite"
    /\ o_trace' = o_trace \o <<"setupSimulation", "runSimulation">>
    /\ UNCHANGED <<o_ports, o_layernumbers, o_allpolygons, o_i, o_j,
                   s_params, o_calc, o_snp>>

\* lines 151-155: the empty S matrix
O_InitPost ==
    /\ o_pc = "post_init"
    /\ LET num_ports == o_ports.portcount
       IN  /\ s_params' = [rc \in (0..num_ports - 1) \X (0..num_ports - 1) |-> Empty]
           /\ o_pc' = IF num_ports = 0 THEN "write" ELSE "calc"
    /\ o_i' = 1
    /\ o_j' = 1
    /\ UNCHANGED <<o_trace, o_ports, o_layernumbers, o_allpolygons, o_runs,
                   o_calc, o_snp>>

\* A variant that stores the result in the transposed entry.
O_CalcSij_Transposed ==
    /\ o_pc = "calc"
    /\ LET num_ports == o_ports.portcount
       IN  /\ \E data \in 1..NumSValues :
                  LET result == [i |-> o_i, j |-> o_j, data |-> data]
                  IN  /\ s_params' = [s_params EXCEPT ![<<o_j - 1, o_i - 1>>] = result]
                      /\ o_calc' = Append(o_calc, result)
           /\ IF o_j < num_ports
              THEN o_i' = o_i /\ o_j' = o_j + 1 /\ o_pc' = "calc"
              ELSE IF o_i < num_ports
              THEN o_i' = o_i + 1 /\ o_j' = 1 /\ o_pc' = "calc"
              ELSE o_i' = o_i /\ o_j' = o_j /\ o_pc' = "write"
    /\ o_trace' = Append(o_trace, "calculate_Sij")
    /\ UNCHANGED <<o_ports, o_layernumbers, o_allpolygons, o_runs, o_snp>>

\* lines 158-160: one pass of the inner loop.  The result of
\* utilities.calculate_Sij(i, j, ..) is what the simulation data give for
\* that pair.
O_CalcSij ==
    /\ o_pc = "calc"
    /\ LET num_ports == o_ports.portcount
       IN  /\ \E data \in 1..NumSValues :
                  LET result == [i |-> o_i, j |-> o_j, data |-> data]
                  IN  /\ s_params' = [s_params EXCEPT ![<<o_i - 1, o_j - 1>>] = result]
                      /\ o_calc' = Append(o_calc, result)
           /\ IF o_j < num_ports
              THEN o_i' = o_i /\ o_j' = o_j + 1 /\ o_pc' = "calc"
              ELSE IF o_i < num_ports
              THEN o_i' = o_i + 1 /\ o_j' = 1 /\ o_pc' = "calc"
              ELSE o_i' = o_i /\ o_j' = o_j /\ o_pc' = "write"
    /\ o_trace' = Append(o_trace, "calculate_Sij")
    /\ UNCHANGED <<o_ports, o_layernumbers, o_allpolygons, o_runs, o_snp>>

\* lines 163-166
O_WriteSnp ==
    /\ o_pc = "write"
    /\ o_snp' = Append(o_snp, [name |-> O_SnpName(o_ports.portcount),
                               data |-> s_params])
    /\ o_pc' = "done"
    /\ o_trace' = Append(o_trace, "write_snp")
    /\ UNCHANGED <<o_ports, o_layernumbers, o_allpolygons, o_runs, o_i, o_j,
                   s_params, o_calc>>

(***************************************************************************)
(* palace_model.py                                                         *)
(***************************************************************************)
\* line 20
start_simulation == FALSE
\* line 21
run_command == <<"./run_sim">>

\* lines 76-77
P_PortDefs == << simulation_port(1, 201), simulation_port(2, 202) >>

P_gds_filename == "line_simple_viaport.gds"
P_gds_cellname == ""
P_XML_filename == "SG13G2_nosub.xml"
P_model_basename == "palace_model"
P_sim_path == <<Root, "work", "sim:palace_model">>

\* lines 46-69
P_InitialSettings ==
    [purpose |-> <<0>>, preprocess_gds |-> FALSE, merge_polygon_size |-> 0,
     unit |-> "1e-6", margin |-> 50, fstart |-> "0e9", fstop |-> "100e9",
     fstep |-> "2.5e9", fpoint |-> <<>>, fdump |-> <<>>,
     boundary |-> <<"ABC", "ABC", "ABC", "ABC", "ABC", "ABC">>,
     refined_cellsize |-> 2, cells_per_wavelength |-> 10,
     meshsize_max |-> 70, adaptive_mesh_iterations |-> 0]

\* lines 20-69
P_Settings ==
    /\ p_pc = "start"
    /\ p_pc' = "create_ports"
    /\ p_trace' = Append(p_trace, "settings")
    /\ UNCHANGED <<p_ports, p_layernumbers, p_allpolygons, p_created,
                   p_run_scripts, p_solver_runs>>

\* A variant that reads the stackup before any port is defined.
P_CreatePorts_ReadsFirst ==
    /\ p_pc = "create_ports"
    /\ p_ports' = all_simulation_ports
    /\ p_pc' = IF Len(P_PortDefs) = 0 THEN "read_substrate" ELSE "add_port"
    /\ p_trace' = Append(p_trace, "read_substrate")
    /\ UNCHANGED <<p_layernumbers, p_allpolygons, p_created,
                   p_run_scripts, p_solver_runs>>

\* line 74
P_CreatePorts ==
    /\ p_pc = "create_ports"
    /\ p_ports' = all_simulation_ports
    /\ p_pc' = IF Len(P_PortDefs) = 0 THEN "read_substrate" ELSE "add_port"
    /\ UNCHANGED <<p_trace, p_layernumbers, p_allpolygons, p_created,
                   p_run_scripts, p_solver_runs>>

\* lines 76 and 77: one add_port call
P_AddPort ==
    /\ p_pc = "add_port"
    /\ LET k == Len(p_ports.ports) + 1
       IN  /\ p_ports' = add_port(p_ports, P_PortDefs[k])
           /\ p_pc' = IF k = Len(P_PortDefs) THEN "read_substrate" ELSE "add_port"
    /\ p_trace' = Append(p_trace, "add_port")
    /\ UNCHANGED <<p_layernumbers, p_allpolygons, p_created, p_run_scripts,
                   p_solver_runs>>

\* lines 83-87
P_ReadSubstrate ==
    /\ p_pc = "read_substrate"
    /\ \E metals \in StackupLayers :
           p_layernumbers' = metals \o p_ports.portlayers
    /\ p_pc' = "read_gds"
    /\ p_trace' = Append(p_trace, "read_substrate")
    /\ UNCHANGED <<p_ports, p_allpolygons, p_created, p_run_scripts, p_solver_runs>>

\* lines 90-96
P_ReadGds ==
    /\ p_pc = "read_gds"
    /\ p_allpolygons' = [gds_filename |-> P_gds_filename,
                         layernumbers |-> p_layernumbers,
                         purposelist  |-> P_InitialSettings.purpose,
                         cellname     |-> P_gds_cellname]
    /\ p_pc' = "create_palace"
    /\ p_trace' = Append(p_trace, "read_gds")
    /\ UNCHANGED <<p_ports, p_layernumbers, p_created, p_run_scripts, p_solver_runs>>

\* lines 101-113: the rest of the settings, and the Palace model
P_CreatePalace ==
    /\ p_pc = "create_palace"
    /\ p_created' = Append(p_created, all_active_excitations(p_ports))
    /\ p_pc' = "run_script"
    /\ p_trace' = Append(p_trace, "create_palace")
    /\ UNCHANGED <<p_ports, p_layernumbers, p_allpolygons, p_run_scripts,
                   p_solver_runs>>

\* lines 117-125: the run script, and the solver when start_simulation is set
P_CreateRunScript ==
    /\ p_pc = "run_script"
    /\ p_run_scripts' = Append(p_run_scripts, P_sim_path)
    /\ p_solver_runs' = IF start_simulation THEN Append(p_solver_runs, run_command)
                                            ELSE p_solver_runs
    /\ p_pc' = "done"
    /\ p_trace' = Append(p_trace, "create_run_script")
    /\ UNCHANGED <<p_ports, p_layernumbers, p_allpolygons, p_created>>

(***************************************************************************)
(* Initial states and specifications.                                      *)
(***************************************************************************)
\* The paths of the file system that the model lets exist.
ToolsDir == <<Root, "opt", "tools">>
FsPaths ==
    { <<Root, "opt", "EMStudio">>,
      <<"rel", "EMStudio">>,
      PathJoin(ToolsDir, <<"EMStudio">>),
      PathJoin(ToolsDir, <<"EMStudio.exe">>),
      <<Root, "usr", "local", "bin", "EMStudio">>,
      <<Root, "usr", "bin", "EMStudio">>,
      PathJoin(HomeDir, <<"bin", "EMStudio">>),
      <<Root, "Program Files", "EMStudio", "EMStudio.exe">>,
      <<Root, "Program Files (x86)", "EMStudio", "EMStudio.exe">> }

\* The raw values of EMSTUDIO_EXE that the model sets.
EnvExeValues ==
    { <<Space>>,
      <<Root, "opt", "EMStudio">>,
      <<Space, Quote, Root, "opt", "EMStudio", Quote, Space>>,
      <<Quote, Space, Root, "opt", "EMStudio", Quote>>,
      <<"rel", "EMStudio">> }

\* The values of PATH (split at os.pathsep) that the model sets.
PathValues == { <<>>, <<ToolsDir>>, <<ToolsDir, <<Root, "usr", "bin">>>> }

\* The Python variables of the host process: none, or both.
PythonEnvs ==
    { <<>>,
      [k \in {"PYTHONHOME", "PYTHONPATH"} |-> <<Root, "opt", "klayout", "python">>] }

\* The process environments: PATH, EMSTUDIO_EXE when set, and the Python
\* variables of the host when set.
Environments ==
    LET base == { ("PATH" :> pv) @@ py : pv \in PathValues, py \in PythonEnvs }
        withExe == base \cup { ("EMSTUDIO_EXE" :> ev) @@ b : ev \in EnvExeValues, b \in base }
    IN  withExe

DriverStart ==
    /\ triggered = FALSE
    /\ view = NoView
    /\ find_called = FALSE
    /\ emstudio_path = None
    /\ popen_calls = <<>>
    /\ procs = <<>>
    /\ msgboxes = <<>>
    /\ raised = FALSE

OpenEMSStart ==
    /\ o_pc = "start"
    /\ o_trace = <<>>
    /\ o_ports = all_simulation_ports
    /\ o_layernumbers = <<>>
    /\ o_allpolygons = None
    /\ o_runs = <<>>
    /\ o_i = 0
    /\ o_j = 0
    /\ s_params = <<>>
    /\ o_calc = <<>>
    /\ o_snp = <<>>

PalaceStart ==
    /\ p_pc = "start"
    /\ p_trace = <<>>
    /\ p_ports = all_simulation_ports
    /\ p_layernumbers = <<>>
    /\ p_allpolygons = None
    /\ p_created = <<>>
    /\ p_run_scripts = <<>>
    /\ p_solver_runs = <<>>

\* The plugin is loaded in some environment, on some file system.
InitDriver ==
    /\ is_windows \in BOOLEAN
    /\ environ \in Environments
    /\ exists \in {S \in SUBSET FsPaths : Cardinality(S) <= MaxFiles}
    /\ executable \in SUBSET exists
    /\ DriverStart
    /\ OpenEMSStart
    /\ PalaceStart

NextDriver ==
    /\ \E v \in Views, popen_ok \in BOOLEAN : handler_func(v, popen_ok)
    /\ UNCHANGED <<openems_vars, palace_vars>>

SpecDriver == InitDriver /\ [][NextDriver]_vars

\* The two scripts start; the plugin plays no part.
InitScripts ==
    /\ is_windows = FALSE
    /\ environ = [k \in {"PATH"} |-> <<>>]
    /\ exists = {}
    /\ executable = {}
    /\ DriverStart
    /\ OpenEMSStart
    /\ PalaceStart

OpenEMSOnly == UNCHANGED <<driver_vars, palace_vars>>
PalaceOnly == UNCHANGED <<driver_vars, openems_vars>>

NextScripts ==
    \/ O_Settings /\ OpenEMSOnly
    \/ O_CreatePorts /\ OpenEMSOnly
    \/ O_AddPort /\ OpenEMSOnly
    \/ O_ReadSubstrate /\ OpenEMSOnly
    \/ O_ReadGds /\ OpenEMSOnly
    \/ O_CreateFDTD /\ OpenEMSOnly
    \/ O_Excite /\ OpenEMSOnly
    \/ O_InitPost /\ OpenEMSOnly
    \/ O_CalcSij /\ OpenEMSOnly
    \/ O_WriteSnp /\ OpenEMSOnly
    \/ P_Settings /\ PalaceOnly
    \/ P_CreatePorts /\ PalaceOnly
    \/ P_AddPort /\ PalaceOnly
    \/ P_ReadSubstrate /\ PalaceOnly
    \/ P_ReadGds /\ PalaceOnly
    \/ P_CreatePalace /\ PalaceOnly
    \/ P_CreateRunScript /\ PalaceOnly

SpecScripts == InitScripts /\ [][NextScripts]_vars

(***************************************************************************)
(* Properties of handler_func.                                             *)
(***************************************************************************)
\* What the handler's checks of lines 99 and 107 ask of the host.
LayoutLoaded == view.has_view /\ view.layout
HasFilename == view.filename # ""
ExpectedArgs ==
    <<find_emstudio_executable, "-gdsfile", view.filename, "-topcell", view.cell>>

\* C1, as stated: a run of handler_func starts the EMStudio subprocess if
\* and only if a view with a loaded layout exists, the active cell view has
\* a non-empty filename and find_emstudio_executable returned a path; the
\* argument list is [path, "-gdsfile", filename, "-topcell", cell name], and
\* at most one subprocess is started.  The claim takes the active cell
\* view of a loaded layout to have a cell, and is stated for those runs.
C1_AsClaimed ==
    (triggered /\ (LayoutLoaded => view.cell # NoCell)) =>
        /\ (procs # <<>>) <=>
               (LayoutLoaded /\ HasFilename /\ find_emstudio_executable # None)
        /\ Len(procs) <= 1
        /\ \A k \in DOMAIN procs : procs[k] = ExpectedArgs

\* C1, amended: a run of handler_func calls subprocess.Popen if and only if
\* a view with a loaded layout exists, the active cell view has a cell and a
\* non-empty filename, and find_emstudio_executable returned a path; the
\* argument list of the call is [path, "-gdsfile", filename, "-topcell",
\* cell name]; it makes at most one such call, and a subprocess is started
\* only by that call (none when the call raises: then an error box is shown).
C1_LaunchAttempt ==
    triggered =>
        /\ (popen_calls # <<>>) <=>
               (/\ LayoutLoaded
                /\ view.cell # NoCell
                /\ HasFilename
                /\ find_emstudio_executable # None)
        /\ Len(popen_calls) <= 1
        /\ \A k \in DOMAIN popen_calls : popen_calls[k].args = ExpectedArgs
        /\ Len(procs) <= Len(popen_calls)
        /\ \A k \in DOMAIN procs : procs[k] = popen_calls[1].args
        /\ (popen_calls # <<>> /\ procs = <<>>) => msgboxes = <<MsgLaunchFailed>>

\* A run of the handler that launched EMStudio.
C1_Witness ==
    /\ triggered
    /\ Len(popen_calls) = 1
    /\ procs = <<ExpectedArgs>>
    /\ view.filename = "chip.gds"
    /\ view.cell = "TOP"

(***************************************************************************)
(* Properties of find_emstudio_executable.                                 *)
(***************************************************************************)
\* EMSTUDIO_EXE is set in the environment.
OverrideSet == "EMSTUDIO_EXE" \in DOMAIN environ
\* The override names something: it is not empty once stripped, and exists.
OverrideUsable == EnvExe # <<>> /\ EnvExe \in exists

PathDirs == EnvGet("PATH", <<>>)
\* The directories of PATH, by position, that hold an executable `name`.
DirsWith(name) ==
    {k \in DOMAIN PathDirs : PathJoin(PathDirs[k], <<name>>) \in executable}
OnPath(name) == DirsWith(name) # {}
\* The file `name` in the first directory of PATH that holds one.
FoundOnPath(name) ==
    LET k == CHOOSE d \in DirsWith(name) : \A e \in DirsWith(name) : d <= e
    IN  PathJoin(PathDirs[k], <<name>>)
FirstName == IF is_windows THEN "EMStudio.exe" ELSE "EMStudio"
SecondName == IF is_windows THEN "EMStudio" ELSE "EMStudio.exe"
\* What the PATH stage yields (None: nothing).
PathStage ==
    IF OnPath(FirstName) THEN FoundOnPath(FirstName)
    ELSE IF OnPath(SecondName) THEN FoundOnPath(SecondName)
    ELSE None
\* The common locations, by position, that exist and are executable.
GoodCommon ==
    {k \in DOMAIN CommonLocations :
        CommonLocations[k] \in exists /\ CommonLocations[k] \in executable}
\* What the stage of the common locations yields (None: nothing).
CommonStage ==
    IF GoodCommon = {} THEN None
    ELSE CommonLocations[CHOOSE k \in GoodCommon : \A m \in GoodCommon : k <= m]
LaterStages == IF PathStage # None THEN PathStage ELSE CommonStage

C4_AbsoluteOrNone ==
    find_called => (emstudio_path = None \/ IsAbs(emstudio_path))

(***************************************************************************)
(* Properties of the driver scripts.                                       *)
(***************************************************************************)
SolverCalls ==
    {"openEMS", "setupSimulation", "runSimulation", "calculate_Sij", "create_palace"}
OutputCalls == {"write_snp", "create_run_script"}

\* The order of the steps as the scripts take them.
StepRank(call) ==
    CASE call = "settings" -> 1
      [] call = "add_port" -> 2
      [] call = "read_substrate" -> 3
      [] call = "read_gds" -> 4
      [] call \in SolverCalls -> 5
      [] call \in OutputCalls -> 6

\* The order of the steps as C2 states it: reading before the ports.
ClaimedRank(call) ==
    CASE call = "settings" -> 1
      [] call = "read_substrate" -> 2
      [] call = "read_gds" -> 3
      [] call = "add_port" -> 4
      [] call \in SolverCalls -> 5
      [] call \in OutputCalls -> 6

InOrder(trace, rank(_)) ==
    \A a, b \in DOMAIN trace : a < b => rank(trace[a]) <= rank(trace[b])

AllSteps(trace) ==
    \A r \in 1..6 : \E k \in DOMAIN trace : StepRank(trace[k]) = r

\* C2, as stated: each script loads its settings, then reads stackup and
\* geometry, then defines the ports, then invokes the solver library, then
\* writes the output file.
C2_AsClaimed ==
    /\ InOrder(o_trace, ClaimedRank)
    /\ InOrder(p_trace, ClaimedRank)

\* C2, amended: each script loads its settings, then defines the ports
\* (add_port), then reads the stackup (read_substrate) and the geometry
\* (read_gds), then invokes the solver library, then writes the output
\* file; no step starts before the one before it has finished, and a run
\* that ends has taken every step.
C2_Order ==
    /\ InOrder(o_trace, StepRank)
    /\ InOrder(p_trace, StepRank)
    /\ o_pc = "done" => AllSteps(o_trace)
    /\ p_pc = "done" => AllSteps(p_trace)
    /\ \A k \in DOMAIN o_trace : StepRank(o_trace[k]) \in {3, 4} =>
           o_ports.portcount = Len(O_PortDefs)
    /\ \A k \in DOMAIN p_trace : StepRank(p_trace[k]) \in {3, 4} =>
           p_ports.portcount = Len(P_PortDefs)

\* Both scripts have run to their end.
C2_Witness ==
    /\ o_pc = "done"
    /\ p_pc = "done"
    /\ o_trace[2] = "add_port"
    /\ p_trace[2] = "add_port"
    /\ o_trace[Len(o_trace)] = "write_snp"
    /\ p_trace[Len(p_trace)] = "create_run_script"

\* The calculate_Sij calls made for the pair (i, j), by position.
CallsFor(i, j) == {k \in DOMAIN o_calc : o_calc[k].i = i /\ o_calc[k].j = j}

\* C5: after all excitation runs, calculate_Sij is called exactly once for
\* every pair (i, j) with 1 <= i, j <= N = simulation_ports.portcount, and
\* its result is stored at s_params[i-1, j-1]; no entry of s_params is left
\* unassigned; write_snp is called exactly once, after all entries are
\* filled, with the file name <sim_path>/<model_basename>.s<N>p; and every
\* port j used in post-processing was excited in one of the runs before.
C5_FullSMatrix ==
    LET N == o_ports.portcount
    IN  /\ o_calc # <<>> => Len(o_runs) = Len(o_ports.ports)
        /\ \A k \in DOMAIN o_calc :
               /\ o_calc[k].i \in 1..N
               /\ o_calc[k].j \in 1..N
               /\ CallsFor(o_calc[k].i, o_calc[k].j) = {k}
               /\ s_params[<<o_calc[k].i - 1, o_calc[k].j - 1>>] = o_calc[k]
               /\ \E r \in DOMAIN o_runs : o_runs[r] = <<o_calc[k].j>>
        /\ Len(o_snp) <= 1
        /\ o_snp # <<>> =>
               /\ \A i, j \in 1..N : CallsFor(i, j) # {}
               /\ \A rc \in DOMAIN s_params : s_params[rc] # Empty
               /\ o_snp[1].data = s_params
               /\ o_snp[1].name =
                      O_sim_path \o << <<O_model_basename, ".s", ToString(N), "p">> >>
        /\ o_pc = "done" => Len(o_snp) = 1

\* The openEMS script has written the file of a 2 x 2 matrix whose entries
\* are not all the same data.
C5_Witness ==
    /\ o_pc = "done"
    /\ Len(o_snp) = 1
    /\ Len(o_calc) = 4
    /\ s_params[<<0, 1>>].data # s_params[<<1, 0>>].data

====
